---- MODULE Spec2Model ----
(***************************************************************************)
(* A model of the saga execution coordinator of kzh125/go-saga: one Saga   *)
(* (src/saga.go, the current variant, lines 194-420), driven by one caller *)
(* goroutine ("main") and the goroutines ExecSubConcurrent starts, over a  *)
(* Redis-style list store (src/unnamed/part_000).                          *)
(*                                                                         *)
(* Every Storage operation, every critical section of the saga mutex and   *)
(* every call of user code is one step, so the goroutines interleave       *)
(* exactly where the code lets them.  A log record is the Log struct       *)
(* without its wall-clock Time; its JSON text is not modelled.  The params *)
(* of a record are (type name, encoded value) pairs as the specification   *)
(* describes them: MarshalParam and UnmarshalParam are not among the       *)
(* source files.  Storage errors and unknown sub-transaction ids panic in  *)
(* the code and are left out: every Storage call succeeds and every id is  *)
(* registered.                                                             *)
(*                                                                         *)
(* Spec      the saga within its lifecycle: EndSaga is the last call       *)
(* SpecLate  the same, and one more call is made after EndSaga returned    *)
(* SpecCtx   the same as Spec, and the caller may cancel its context       *)
(* SpecSEC   a coordinator made with any prefix starts a saga with any id, *)
(*           and Storage is called directly on two test keys               *)
(* SpecLive  the same as Spec, and every goroutine that can run does run   *)
(***************************************************************************)
EXTENDS Integers, Sequences, FiniteSets, TLC

\* ---------------------------------------------------------------- bounds
\* number of calls the caller makes on the saga after StartSaga, EndSaga included
MaxCalls == 3
\* number of sub-transactions the caller asks for in all, through ExecSub and
\* through the groups of ExecSubConcurrent
MaxSubTx == 2
\* the latest invocation at which the user compensation would first succeed
MaxFirstOk == 11
\* number of Storage calls made from outside a saga (SpecSEC)
MaxOps == 4

\* ------------------------------------------------------ program constants
maxTry == 10
LogPrefix == "saga"
FailKey == "sagacompensate_failures"

\* ------------------------------------------------------------ input sets
Ids == {"tx-1"}
\* the ids the coordinator is tried with on its own (SpecSEC)
AllIds == Ids \cup {"tx-2", "compensate_failures"}
\* the logPrefix values NewSEC is tried with (SpecSEC); the saga runs of Spec are
\* made with NewSEC(store, LogPrefix)
Prefixes == {LogPrefix, "t_"}
SubTxIDs == {"out", "in"}
\* the error the user action of a sub-transaction returns when it fails
ActionErr(subTxID) == "E-" \o subTxID
Errors == {ActionErr(x) : x \in SubTxIDs}
nil == "nil"

Main == "main"
Workers == {"g1", "g2"}
Threads == {Main} \cup Workers

\* ExecSubParams: one sub-transaction call of a group
ExecSubParams == {[SubTxID |-> "out", Args |-> <<"A", 50>>],
                  [SubTxID |-> "in", Args |-> <<"B", 50>>]}
\* the values the arguments are made of, by the name of their type
ArgValues == [string |-> {"A", "B"}, int |-> {20, 50}]
NoParams == [SubTxID |-> "", Args |-> <<>>]
SeqsUpTo(S, n) == UNION {[1..m -> S] : m \in 0..n}

\* the keys of the store: an absent Redis key is an empty list
TestKeys == {"t_11", "t_12"}
Keys == {p \o id : p \in Prefixes, id \in AllIds} \cup {FailKey} \cup TestKeys
\* the payloads the storage calls of SpecSEC append
TestData == {"{1}", "{2}"}

\* contexts: the one the caller gave to StartSaga, and context.Background()
CallerCtx == "ctx"
Background == "Background"

VARIABLES
    store,          \* Storage: key -> list of payloads
    logID,          \* Saga.logID ("" before StartSaga)
    abort,          \* Saga.abort
    err,            \* Saga.err
    compensateFail, \* Saga.compensateFail
    mu,             \* Saga.mu: the goroutine holding it, or "none"
    pc,             \* each goroutine's position (a source line of saga.go)
    cur,            \* the ExecSub call a goroutine is in: its subTxID and args
    queue,          \* the rest of a goroutine's group (ExecSubConcurrent)
    logs,           \* Abort's local logs: the Lookup snapshot
    iter,           \* Abort's loop: how many records of the snapshot were visited
    res,            \* ExecSub's local result of the action call
    phase,          \* the caller's place in the saga's lifecycle: new, running, ended
                    \* (EndSaga returned), late (a call was made after that)
    calls,          \* the number of calls the caller made on the saga
    subs,           \* the number of sub-transactions the caller has asked for
    ret,            \* what EndSaga returned last
    scans,          \* history: one entry per Abort, what its scan compensated
    scanOf,         \* history: the entry of the Abort a goroutine is in
    errLog,         \* history: the errors written to Saga.err, in the order written
    logPrefix,      \* ExecutionCoordinator.logPrefix, as given to NewSEC
    sagaId,         \* Saga.id
    cancelled,      \* the caller's context (Saga.context) was cancelled
    loop,           \* compensate's locals after its retry loop: the arguments and
                    \* the context of the calls, ok, and the number of calls made
    concurrent,     \* history: the caller has called ExecSubConcurrent
    subTxsList,     \* ExecSubConcurrent's subTxsList, while the call runs
    sent,           \* history: log position of an ActionEnd -> the args of its ExecSub
    op              \* the last Storage call made from outside a saga, and its result

vars == <<store, logID, abort, err, compensateFail, mu, pc, cur, queue, logs,
          iter, res, phase, calls, subs, ret, scans, scanOf, errLog,
          logPrefix, sagaId, cancelled, loop, concurrent, subTxsList, sent, op>>

\* ----------------------------------------------------------- log records
Log(type, subTxID, params) == [Type |-> type, SubTxID |-> subTxID, Params |-> params]

\* ---------------------------------------------------------------- Storage
\* the Redis list commands the store is made of; positions count from 0, a
\* negative position counts from the end of the list
RPUSH(list, data) == Append(list, data)
ListIndex(list, i) == IF i < 0 THEN Len(list) + i ELSE i
LRANGE(list, start, stop) ==
    LET first == IF ListIndex(list, start) < 0 THEN 0 ELSE ListIndex(list, start)
        last == IF ListIndex(list, stop) >= Len(list) THEN Len(list) - 1
                ELSE ListIndex(list, stop)
    IN IF first > last THEN <<>> ELSE SubSeq(list, first + 1, last + 1)
DEL == <<>>

AppendLog(s, key, data) == [s EXCEPT ![key] = RPUSH(@, data)]
Lookup(s, key) == LRANGE(s[key], 0, -1)
Cleanup(s, key) == [s EXCEPT ![key] = DEL]
\* a LastLog that returns the head of the list
LastLog_first(s, key) ==
    LET replys == LRANGE(s[key], 0, 0)
    IN IF Len(replys) = 0 THEN "" ELSE replys[1]
LastLog(s, key) ==
    LET replys == LRANGE(s[key], -1, -1)
    IN IF Len(replys) = 0 THEN "" ELSE replys[1]

\* ------------------------------------------------------------------- Init
\* NewSEC(store, logPrefix): the coordinator keeps the prefix it was given
NewSEC(prefix) == prefix

\* compensate's locals outside its retry loop
NoLoop == [args |-> <<>>, ctx |-> "", firstOk |-> 0, ok |-> FALSE, n |-> 0]
\* no Storage call was made from outside
NoOp == [seq |-> 0, name |-> "", key |-> "", data |-> "", result |-> <<>>]

\* the state before StartSaga, whatever coordinator the saga will be started by
InitSaga ==
    /\ store = [key \in Keys |-> <<>>]
    /\ logID = ""
    /\ abort = FALSE
    /\ err = nil
    /\ compensateFail = FALSE
    /\ mu = "none"
    /\ pc = [t \in Threads |-> IF t = Main THEN "new" ELSE "off"]
    /\ cur = [t \in Threads |-> NoParams]
    /\ queue = [t \in Threads |-> <<>>]
    /\ logs = [t \in Threads |-> <<>>]
    /\ iter = [t \in Threads |-> 0]
    /\ res = [t \in Threads |-> nil]
    /\ phase = "new"
    /\ calls = 0
    /\ subs = 0
    /\ ret = "none"
    /\ scans = <<>>
    /\ scanOf = [t \in Threads |-> 0]
    /\ errLog = <<>>
    /\ sagaId = ""
    /\ cancelled = FALSE
    /\ loop = [t \in Threads |-> NoLoop]
    /\ concurrent = FALSE
    /\ subTxsList = [w \in Workers |-> <<>>]
    /\ sent = <<>>
    /\ op = NoOp

\* the coordinator of the saga runs is made by NewSEC(store, LogPrefix)
Init == InitSaga /\ logPrefix = NewSEC(LogPrefix)

\* a coordinator made with any of the prefixes
InitSEC == InitSaga /\ \E prefix \in Prefixes : logPrefix = NewSEC(prefix)

\* ------------------------------------------- Storage calls from outside
\* what a Storage call from outside a saga leaves alone
OutsideCall(name, key, data, result) ==
    /\ op.seq < MaxOps
    /\ op' = [seq |-> op.seq + 1, name |-> name, key |-> key, data |-> data,
              result |-> result]
    /\ UNCHANGED <<logID, abort, err, compensateFail, mu, pc, cur, queue, logs,
                   iter, res, phase, calls, subs, ret, scans, scanOf, errLog,
                   logPrefix, sagaId, cancelled, loop, concurrent, subTxsList, sent>>

Store_AppendLog(key, data) ==
    /\ store' = AppendLog(store, key, data)
    /\ OutsideCall("AppendLog", key, data, <<>>)

Store_Lookup(key) ==
    /\ OutsideCall("Lookup", key, "", Lookup(store, key))
    /\ UNCHANGED store

Store_Cleanup(key) ==
    /\ store' = Cleanup(store, key)
    /\ OutsideCall("Cleanup", key, "", <<>>)

Store_LastLog(key) ==
    /\ OutsideCall("LastLog", key, "", <<LastLog(store, key)>>)
    /\ UNCHANGED store

\* ------------------------------------------------------------ StartSaga
\* a StartSaga that returns the Saga without writing SagaStart
startSaga_skip(s, key) == s

\* startSaga: the SagaStart record is appended under the saga's logID
startSaga(s, key) == AppendLog(s, key, Log("SagaStart", "", <<>>))

\* ExecutionCoordinator.StartSaga: build the Saga, write SagaStart, return it
StartSaga(id) ==
    /\ pc[Main] = "new"
    /\ logID' = LogPrefix \o id
    /\ sagaId' = id
    /\ store' = startSaga(store, logID')
    /\ pc' = [pc EXCEPT ![Main] = "idle"]
    /\ phase' = "running"
    /\ UNCHANGED <<abort, err, compensateFail, mu, cur, queue, logs, iter, res,
                   calls, subs, ret, scans, scanOf, errLog,
                   logPrefix, cancelled, loop, concurrent, subTxsList, sent, op>>

\* ------------------------------------------------- the caller's calls
\* the groups a call of ExecSubConcurrent may pass when n sub-transactions are left
GroupLists(n) ==
    {g \in [Workers -> SeqsUpTo(ExecSubParams, n)] : Len(g["g1"]) + Len(g["g2"]) <= n}

\* s.ExecSub(item.SubTxID, item.Args...) is entered by the caller
BeginExecSub(item) ==
    /\ pc[Main] = "idle"
    /\ subs < MaxSubTx
    /\ subs' = subs + 1
    /\ pc' = [pc EXCEPT ![Main] = "E250"]
    /\ cur' = [cur EXCEPT ![Main] = item]
    /\ UNCHANGED <<store, logID, abort, err, compensateFail, mu, queue, logs,
                   iter, res, ret, scans, scanOf, errLog,
                   logPrefix, sagaId, cancelled, loop, concurrent, subTxsList, sent, op>>

\* s.Abort() is entered by the caller
BeginAbort ==
    /\ pc[Main] = "idle"
    /\ pc' = [pc EXCEPT ![Main] = "A338"]
    /\ UNCHANGED <<store, logID, abort, err, compensateFail, mu, cur, queue,
                   logs, iter, res, subs, ret, scans, scanOf, errLog,
                   logPrefix, sagaId, cancelled, loop, concurrent, subTxsList, sent, op>>

\* s.EndSaga() is entered by the caller
BeginEndSaga ==
    /\ pc[Main] = "idle"
    /\ pc' = [pc EXCEPT ![Main] = "N318"]
    /\ UNCHANGED <<store, logID, abort, err, compensateFail, mu, cur, queue,
                   logs, iter, res, subs, ret, scans, scanOf, errLog,
                   logPrefix, sagaId, cancelled, loop, concurrent, subTxsList, sent, op>>

\* ExecSubConcurrent: one goroutine per group; the caller goes to n.Wait()
BeginExecSubConcurrent(groups) ==
    /\ pc[Main] = "idle"
    /\ concurrent' = TRUE
    /\ subTxsList' = groups
    /\ pc' = [t \in Threads |->
                IF t = Main THEN "wait"
                ELSE IF groups[t] = <<>> THEN "done" ELSE "E250"]
    /\ cur' = [t \in Threads |->
                IF t = Main \/ groups[t] = <<>> THEN NoParams ELSE Head(groups[t])]
    /\ queue' = [t \in Threads |->
                IF t = Main \/ groups[t] = <<>> THEN <<>> ELSE Tail(groups[t])]
    /\ subs' = subs + Len(groups["g1"]) + Len(groups["g2"])
    /\ UNCHANGED <<store, logID, abort, err, compensateFail, mu, logs, iter,
                   res, ret, scans, scanOf, errLog,
                   logPrefix, sagaId, cancelled, loop, sent, op>>

\* an ExecSubConcurrent that returns without waiting for its goroutines
WaitDone_none == TRUE

\* n.Wait(): every goroutine of the call has run n.Done()
WaitDone == \A w \in Workers : pc[w] = "done"

ExecSubConcurrent_Wait ==
    /\ pc[Main] = "wait"
    /\ WaitDone
    /\ subTxsList' = [w \in Workers |-> <<>>]
    /\ pc' = [t \in Threads |->
                IF t = Main THEN "idle"
                ELSE IF pc[t] = "done" THEN "off" ELSE pc[t]]
    /\ UNCHANGED <<store, logID, abort, err, compensateFail, mu, cur, queue,
                   logs, iter, res, phase, calls, subs, ret, scans, scanOf,
                   errLog,
                   logPrefix, sagaId, cancelled, loop, concurrent, sent, op>>

\* a call made while the saga is running (EndSaga has not returned)
InLifecycle ==
    /\ phase = "running"
    /\ calls < MaxCalls
    /\ calls' = calls + 1
    /\ UNCHANGED phase

CallExecSub == InLifecycle /\ \E item \in ExecSubParams : BeginExecSub(item)
CallAbort == InLifecycle /\ BeginAbort
CallEndSaga == InLifecycle /\ BeginEndSaga
CallExecSubConcurrent ==
    InLifecycle /\ \E groups \in GroupLists(MaxSubTx - subs) : BeginExecSubConcurrent(groups)

\* the one call the caller makes on the saga after EndSaga returned
AfterEnd ==
    /\ phase = "ended"
    /\ calls < MaxCalls
    /\ calls' = calls + 1
    /\ phase' = "late"

LateExecSub == AfterEnd /\ \E item \in ExecSubParams : BeginExecSub(item)
LateAbort == AfterEnd /\ BeginAbort
LateEndSaga == AfterEnd /\ BeginEndSaga
LateExecSubConcurrent ==
    AfterEnd /\ \E groups \in GroupLists(MaxSubTx - subs) : BeginExecSubConcurrent(groups)

\* --------------------------------------------------------------- return
\* a goroutine that stops after the first sub-transaction of its list
Return_first(t) ==
    /\ pc' = [pc EXCEPT ![t] = IF t = Main THEN "idle" ELSE "done"]
    /\ cur' = [cur EXCEPT ![t] = NoParams]
    /\ queue' = [queue EXCEPT ![t] = <<>>]

\* ExecSub (or the caller's Abort) returns on goroutine t: the caller is idle
\* again; a group's goroutine goes on to the next item of its list, or is done
Return(t) ==
    IF t = Main
    THEN /\ pc' = [pc EXCEPT ![t] = "idle"]
         /\ cur' = [cur EXCEPT ![t] = NoParams]
         /\ UNCHANGED queue
    ELSE IF queue[t] = <<>>
    THEN /\ pc' = [pc EXCEPT ![t] = "done"]
         /\ cur' = [cur EXCEPT ![t] = NoParams]
         /\ UNCHANGED queue
    ELSE /\ pc' = [pc EXCEPT ![t] = "E250"]
         /\ cur' = [cur EXCEPT ![t] = Head(queue[t])]
         /\ queue' = [queue EXCEPT ![t] = Tail(@)]

\* ------------------------------------------------------------ parameters
\* the registered name of an argument's type
TypeName(v) == IF \E n \in ArgValues["int"] : ToString(n) = ToString(v) THEN "int" ELSE "string"
\* MarshalParam: one (type name, encoded value) pair per argument, in order
MarshalParam(args) ==
    [k \in DOMAIN args |-> [name |-> TypeName(args[k]), value |-> ToString(args[k])]]
\* UnmarshalParam: each pair decoded as a value of the type it names
UnmarshalParam(params) ==
    [k \in DOMAIN params |->
        CHOOSE v \in ArgValues[params[k].name] : ToString(v) = params[k].value]

\* --------------------------------------------------------------- ExecSub
ExecSub_Lock(t) ==
    /\ pc[t] = "E250"
    /\ mu = "none"
    /\ mu' = t
    /\ pc' = [pc EXCEPT ![t] = "E251"]
    /\ UNCHANGED <<store, logID, abort, err, compensateFail, cur, queue, logs,
                   iter, res, phase, calls, subs, ret, scans, scanOf, errLog,
                   logPrefix, sagaId, cancelled, loop, concurrent, subTxsList, sent, op>>

\* abort := s.abort; s.mu.Unlock(); if abort { return s }
ExecSub_ReadAbort(t) ==
    /\ pc[t] = "E251"
    /\ mu' = "none"
    /\ IF abort
       THEN Return(t)
       ELSE /\ pc' = [pc EXCEPT ![t] = "E262"]
            /\ UNCHANGED <<cur, queue>>
    /\ UNCHANGED <<store, logID, abort, err, compensateFail, logs, iter, res,
                   phase, calls, subs, ret, scans, scanOf, errLog,
                   logPrefix, sagaId, cancelled, loop, concurrent, subTxsList, sent, op>>

\* the ActionStart record: no Params
ExecSub_ActionStart(t) ==
    /\ pc[t] = "E262"
    /\ store' = AppendLog(store, logID, Log("ActionStart", cur[t].SubTxID, <<>>))
    /\ pc' = [pc EXCEPT ![t] = "E272"]
    /\ UNCHANGED <<logID, abort, err, compensateFail, mu, cur, queue, logs, iter,
                   res, phase, calls, subs, ret, scans, scanOf, errLog,
                   logPrefix, sagaId, cancelled, loop, concurrent, subTxsList, sent, op>>

\* subTxDef.action.Call(params): the user action returns nil or an error
ExecSub_Action(t) ==
    /\ pc[t] = "E272"
    /\ \E r \in {nil, ActionErr(cur[t].SubTxID)} :
         /\ res' = [res EXCEPT ![t] = r]
         /\ pc' = [pc EXCEPT ![t] = IF r = nil THEN "E287" ELSE "E274"]
    /\ UNCHANGED <<store, logID, abort, err, compensateFail, mu, cur, queue, logs,
                   iter, phase, calls, subs, ret, scans, scanOf, errLog,
                   logPrefix, sagaId, cancelled, loop, concurrent, subTxsList, sent, op>>

ExecSub_ErrLock(t) ==
    /\ pc[t] = "E274"
    /\ mu = "none"
    /\ mu' = t
    /\ pc' = [pc EXCEPT ![t] = "E275"]
    /\ UNCHANGED <<store, logID, abort, err, compensateFail, cur, queue, logs,
                   iter, res, phase, calls, subs, ret, scans, scanOf, errLog,
                   logPrefix, sagaId, cancelled, loop, concurrent, subTxsList, sent, op>>

\* s.err, _ = result[0].Interface().(error): what the assignment leaves in s.err
RecordErr(old, new) == new

\* an ExecSub that calls s.Abort() without s.mu.Unlock() before it
ExecSub_SetErr_locked(t) ==
    /\ pc[t] = "E275"
    /\ err' = RecordErr(err, res[t])
    /\ errLog' = Append(errLog, res[t])
    /\ res' = [res EXCEPT ![t] = nil]
    /\ pc' = [pc EXCEPT ![t] = "A338"]
    /\ UNCHANGED <<store, logID, abort, compensateFail, mu, cur, queue, logs, iter,
                   phase, calls, subs, ret, scans, scanOf,
                   logPrefix, sagaId, cancelled, loop, concurrent, subTxsList, sent, op>>

\* s.err = the action's error; s.mu.Unlock(); s.Abort()
ExecSub_SetErr(t) ==
    /\ pc[t] = "E275"
    /\ err' = RecordErr(err, res[t])
    /\ errLog' = Append(errLog, res[t])
    /\ mu' = "none"
    /\ res' = [res EXCEPT ![t] = nil]
    /\ pc' = [pc EXCEPT ![t] = "A338"]
    /\ UNCHANGED <<store, logID, abort, compensateFail, cur, queue, logs, iter,
                   phase, calls, subs, ret, scans, scanOf,
                   logPrefix, sagaId, cancelled, loop, concurrent, subTxsList, sent, op>>

\* the earlier variant of ExecSub (saga.go lines 52-82): the params are on the
\* ActionStart record and the ActionEnd record has none
ActionEndParams_v1(args) == <<>>

\* Params: MarshalParam(s.sec, args)
ActionEndParams(args) == MarshalParam(args)

\* the ActionEnd record carries the marshalled args; ExecSub returns
ExecSub_ActionEnd(t) ==
    /\ pc[t] = "E287"
    /\ store' = AppendLog(store, logID,
                          Log("ActionEnd", cur[t].SubTxID, ActionEndParams(cur[t].Args)))
    /\ sent' = (Len(store'[logID]) :> cur[t].Args) @@ sent
    /\ Return(t)
    /\ UNCHANGED <<logID, abort, err, compensateFail, mu, logs, iter, res, phase, calls, subs, ret, scans, scanOf, errLog,
                   logPrefix, sagaId, cancelled, loop, concurrent, subTxsList, op>>

\* ----------------------------------------------------------------- Abort
Abort_Lock(t) ==
    /\ pc[t] = "A338"
    /\ mu = "none"
    /\ mu' = t
    /\ pc' = [pc EXCEPT ![t] = "A339"]
    /\ UNCHANGED <<store, logID, abort, err, compensateFail, cur, queue, logs,
                   iter, res, phase, calls, subs, ret, scans, scanOf, errLog,
                   logPrefix, sagaId, cancelled, loop, concurrent, subTxsList, sent, op>>

\* s.abort = true; s.mu.Unlock()
Abort_SetAbort(t) ==
    /\ pc[t] = "A339"
    /\ abort' = TRUE
    /\ mu' = "none"
    /\ pc' = [pc EXCEPT ![t] = "A341"]
    /\ UNCHANGED <<store, logID, err, compensateFail, cur, queue, logs, iter, res,
                   phase, calls, subs, ret, scans, scanOf, errLog,
                   logPrefix, sagaId, cancelled, loop, concurrent, subTxsList, sent, op>>

\* logs, err := s.store.Lookup(s.logID): the snapshot the scan works on
Abort_Lookup(t) ==
    /\ pc[t] = "A341"
    /\ logs' = [logs EXCEPT ![t] = Lookup(store, logID)]
    /\ scans' = Append(scans, [snap |-> logs'[t], comp |-> <<>>, fin |-> {},
                               failedAt |-> 0])
    /\ scanOf' = [scanOf EXCEPT ![t] = Len(scans) + 1]
    /\ pc' = [pc EXCEPT ![t] = "A349"]
    /\ UNCHANGED <<store, logID, abort, err, compensateFail, mu, cur, queue, iter,
                   res, phase, calls, subs, ret, errLog,
                   logPrefix, sagaId, cancelled, loop, concurrent, subTxsList, sent, op>>

\* an Abort that writes no SagaAbort record
Abort_SagaAbort_skip(t) ==
    /\ pc[t] = "A349"
    /\ iter' = [iter EXCEPT ![t] = 0]
    /\ pc' = [pc EXCEPT ![t] = "A353"]
    /\ UNCHANGED <<store, logID, abort, err, compensateFail, mu, cur, queue, logs, res,
                   phase, calls, subs, ret, scans, scanOf, errLog,
                   logPrefix, sagaId, cancelled, loop, concurrent, subTxsList, sent, op>>

\* the SagaAbort record; the loop starts with no record visited
Abort_SagaAbort(t) ==
    /\ pc[t] = "A349"
    /\ store' = AppendLog(store, logID, Log("SagaAbort", "", <<>>))
    /\ iter' = [iter EXCEPT ![t] = 0]
    /\ pc' = [pc EXCEPT ![t] = "A353"]
    /\ UNCHANGED <<logID, abort, err, compensateFail, mu, cur, queue, logs, res,
                   phase, calls, subs, ret, scans, scanOf, errLog,
                   logPrefix, sagaId, cancelled, loop, concurrent, subTxsList, sent, op>>

\* a scan that runs through the snapshot from its first record to its last
ScanOrder_forward(snapshot) == [n \in 1..Len(snapshot) |-> n]

\* for i := len(logs) - 1; i >= 0; i--: the n-th record visited is the n-th from
\* the end (positions counted from 1)
ScanOrder(snapshot) == [n \in 1..Len(snapshot) |-> Len(snapshot) + 1 - n]

\* the earlier variant of Abort (saga.go line 129): if log.Type == ActionStart
Compensable_v1(log) == log.Type = "ActionStart"

\* if log.Type == ActionEnd
Compensable(log) == log.Type = "ActionEnd"

\* the next iteration after n visited records that calls compensate, 0 if none
NextVisit(snapshot, n) ==
    LET order == ScanOrder(snapshot)
        cand == {p \in (n + 1)..Len(snapshot) : Compensable(snapshot[order[p]])}
    IN IF cand = {} THEN 0 ELSE CHOOSE p \in cand : \A q \in cand : p <= q

\* Abort returns on goroutine t: its locals are gone
AbortReturn(t) ==
    /\ Return(t)
    /\ logs' = [logs EXCEPT ![t] = <<>>]
    /\ iter' = [iter EXCEPT ![t] = 0]
    /\ scanOf' = [scanOf EXCEPT ![t] = 0]

\* the loop runs to the next ActionEnd of the snapshot and compensate appends
\* its CompensateStart record; with no ActionEnd left Abort returns
Abort_Scan(t) ==
    /\ pc[t] = "A353"
    /\ LET p == NextVisit(logs[t], iter[t]) IN
       IF p = 0
       THEN /\ AbortReturn(t)
            /\ UNCHANGED <<store, scans>>
       ELSE LET i == ScanOrder(logs[t])[p] IN
            /\ store' = AppendLog(store, logID,
                                  Log("CompensateStart", logs[t][i].SubTxID, <<>>))
            /\ iter' = [iter EXCEPT ![t] = p - 1]
            /\ pc' = [pc EXCEPT ![t] = "C392"]
            /\ scans' = [scans EXCEPT ![scanOf[t]].comp = Append(@, i)]
            /\ UNCHANGED <<cur, queue, logs, scanOf>>
    /\ UNCHANGED <<logID, abort, err, compensateFail, mu, res, phase, calls, subs,
                   ret, errLog,
                   logPrefix, sagaId, cancelled, loop, concurrent, subTxsList, sent, op>>

\* a retry loop without its break: the compensation is called maxTry times
RetryLoop_noBreak(i, firstOk) == [ok |-> firstOk \in 1..maxTry, n |-> maxTry]

\* for i := 0; i < maxTry; i++: the user compensation is invoked until it returns
\* no error; firstOk is the invocation (from 1) at which it would first succeed,
\* 0 if it never does.  The result: ok, and n, the number of invocations made.
RECURSIVE RetryLoop(_, _)
RetryLoop(i, firstOk) ==
    IF i < maxTry
    THEN IF i + 1 = firstOk
         THEN [ok |-> TRUE, n |-> i + 1]
         ELSE RetryLoop(i + 1, firstOk)
    ELSE [ok |-> FALSE, n |-> i]

\* a compensate that hands the saga's context to the user compensation
CompensateContext_saga == CallerCtx

\* params = append(params, reflect.ValueOf(context.Background()))
CompensateContext == Background

\* a context is cancelled: the caller's, once the caller cancelled it
Cancelled(ctx) == ctx = CallerCtx /\ cancelled

\* the invocations at which the user compensation may first return no error:
\* never (0), at once, at the second, at the last one the loop makes, or later
\* than that; called with a cancelled context it fails every time
FirstOks(ctx) == IF Cancelled(ctx) THEN {0} ELSE {0, 1, 2, maxTry, MaxFirstOk}

\* compensate's retry loop, called with the unmarshalled params of the record
\* and a context; on !ok compensate returns the error to Abort
compensate_Retry(t) ==
    /\ pc[t] = "C392"
    /\ \E firstOk \in FirstOks(CompensateContext) :
         LET r == RetryLoop(0, firstOk) IN
         /\ pc' = [pc EXCEPT ![t] = IF r.ok THEN "C408" ELSE "A360"]
         /\ scans' = IF r.ok THEN scans
                     ELSE [scans EXCEPT ![scanOf[t]].failedAt =
                               ScanOrder(logs[t])[iter[t] + 1]]
         /\ loop' = [loop EXCEPT ![t] =
                        [args |-> UnmarshalParam(logs[t][ScanOrder(logs[t])[iter[t] + 1]].Params),
                         ctx |-> CompensateContext, firstOk |-> firstOk,
                         ok |-> r.ok, n |-> r.n]]
    /\ UNCHANGED <<store, logID, abort, err, compensateFail, mu, cur, queue, logs,
                   iter, res, phase, calls, subs, ret, scanOf, errLog,
                   logPrefix, sagaId, cancelled, concurrent, subTxsList, sent, op>>

\* the CompensateEnd record; compensate returns nil and the loop goes on
compensate_End(t) ==
    /\ pc[t] = "C408"
    /\ loop' = [loop EXCEPT ![t] = NoLoop]
    /\ store' = AppendLog(store, logID,
                  Log("CompensateEnd", logs[t][ScanOrder(logs[t])[iter[t] + 1]].SubTxID, <<>>))
    /\ iter' = [iter EXCEPT ![t] = @ + 1]
    /\ pc' = [pc EXCEPT ![t] = "A353"]
    /\ scans' = [scans EXCEPT ![scanOf[t]].fin = @ \cup {ScanOrder(logs[t])[iter[t] + 1]}]
    /\ UNCHANGED <<logID, abort, err, compensateFail, mu, cur, queue, logs, res,
                   phase, calls, subs, ret, scanOf, errLog,
                   logPrefix, sagaId, cancelled, concurrent, subTxsList, sent, op>>

\* s.compensateFail = true (no mutex)
Abort_Fail(t) ==
    /\ pc[t] = "A360"
    /\ loop' = [loop EXCEPT ![t] = NoLoop]
    /\ compensateFail' = TRUE
    /\ pc' = [pc EXCEPT ![t] = "A361"]
    /\ UNCHANGED <<store, logID, abort, err, mu, cur, queue, logs, iter, res,
                   phase, calls, subs, ret, scans, scanOf, errLog,
                   logPrefix, sagaId, cancelled, concurrent, subTxsList, sent, op>>

\* the earlier variant of Abort (saga.go lines 130-135): no return after a failed
\* compensation, the loop goes on with the next record
Abort_FailIndex_v1(t) ==
    /\ pc[t] = "A361"
    /\ store' = AppendLog(store, FailKey, logID)
    /\ iter' = [iter EXCEPT ![t] = @ + 1]
    /\ pc' = [pc EXCEPT ![t] = "A353"]
    /\ UNCHANGED <<logID, abort, err, compensateFail, mu, cur, queue, logs, res,
                   phase, calls, subs, ret, scans, scanOf, errLog,
                   logPrefix, sagaId, cancelled, loop, concurrent, subTxsList, sent, op>>

\* s.store.AppendLog("sagacompensate_failures", s.logID); return
Abort_FailIndex(t) ==
    /\ pc[t] = "A361"
    /\ store' = AppendLog(store, FailKey, logID)
    /\ AbortReturn(t)
    /\ UNCHANGED <<logID, abort, err, compensateFail, mu, res, phase, calls, subs,
                   ret, scans, errLog,
                   logPrefix, sagaId, cancelled, loop, concurrent, subTxsList, sent, op>>

\* --------------------------------------------------------------- EndSaga
\* the SagaEnd record
EndSaga_SagaEnd(t) ==
    /\ pc[t] = "N318"
    /\ store' = AppendLog(store, logID, Log("SagaEnd", "", <<>>))
    /\ pc' = [pc EXCEPT ![t] = "N324"]
    /\ UNCHANGED <<logID, abort, err, compensateFail, mu, cur, queue, logs, iter,
                   res, phase, calls, subs, ret, scans, scanOf, errLog,
                   logPrefix, sagaId, cancelled, loop, concurrent, subTxsList, sent, op>>

\* an EndSaga that cleans up whatever compensateFail says
KeepsLog_never(cf) == FALSE

\* if s.compensateFail { return s.err }: the log is kept
KeepsLog(cf) == cf

\* the earlier variant of EndSaga (saga.go lines 99-101): nil when compensateFail
EndSagaResult_v1(cf, e) == IF cf THEN nil ELSE e

\* what EndSaga returns: s.err on both paths
EndSagaResult(cf, e) == e

\* Cleanup unless compensateFail; return s.err
EndSaga_Finish(t) ==
    /\ pc[t] = "N324"
    /\ store' = IF KeepsLog(compensateFail) THEN store ELSE Cleanup(store, logID)
    /\ ret' = EndSagaResult(compensateFail, err)
    /\ pc' = [pc EXCEPT ![t] = "idle"]
    /\ phase' = IF phase = "running" THEN "ended" ELSE phase
    /\ UNCHANGED <<logID, abort, err, compensateFail, mu, cur, queue, logs, iter,
                   res, calls, subs, scans, scanOf, errLog,
                   logPrefix, sagaId, cancelled, loop, concurrent, subTxsList, sent, op>>

\* ------------------------------------------------------------------ Next
Step(t) ==
    \/ ExecSub_Lock(t)
    \/ ExecSub_ReadAbort(t)
    \/ ExecSub_ActionStart(t)
    \/ ExecSub_Action(t)
    \/ ExecSub_ErrLock(t)
    \/ ExecSub_SetErr(t)
    \/ ExecSub_ActionEnd(t)
    \/ Abort_Lock(t)
    \/ Abort_SetAbort(t)
    \/ Abort_Lookup(t)
    \/ Abort_SagaAbort(t)
    \/ Abort_Scan(t)
    \/ compensate_Retry(t)
    \/ compensate_End(t)
    \/ Abort_Fail(t)
    \/ Abort_FailIndex(t)

\* the saga used within its lifecycle: EndSaga is the caller's last call
Next ==
    \/ \E id \in Ids : StartSaga(id)
    \/ CallExecSub
    \/ CallExecSubConcurrent
    \/ CallAbort
    \/ CallEndSaga
    \/ ExecSubConcurrent_Wait
    \/ \E t \in Threads : Step(t)
    \/ EndSaga_SagaEnd(Main)
    \/ EndSaga_Finish(Main)

Spec == Init /\ [][Next]_vars

\* the same, and the caller goes on calling the saga after EndSaga returned
NextLate ==
    \/ Next
    \/ LateExecSub
    \/ LateExecSubConcurrent
    \/ LateAbort
    \/ LateEndSaga

SpecLate == Init /\ [][NextLate]_vars

\* the caller cancels the context it gave to StartSaga, between two of its calls
\* on the saga; nothing in the saga listens to it
CancelContext ==
    /\ phase = "running"
    /\ pc[Main] = "idle"
    /\ ~cancelled
    /\ cancelled' = TRUE
    /\ UNCHANGED <<store, logID, abort, err, compensateFail, mu, pc, cur, queue,
                   logs, iter, res, phase, calls, subs, ret, scans, scanOf, errLog,
                   logPrefix, sagaId, loop, concurrent, subTxsList, sent, op>>

\* the saga within its lifecycle, and the caller's context may be cancelled
NextCtx ==
    \/ Next
    \/ CancelContext

SpecCtx == Init /\ [][NextCtx]_vars

\* the coordinator and the store on their own: a coordinator made with any
\* prefix starts a saga with any id, and Storage is called on the test keys
NextSEC ==
    \/ \E id \in AllIds : StartSaga(id)
    \/ \E key \in TestKeys, data \in TestData : Store_AppendLog(key, data)
    \/ \E key \in TestKeys : Store_Lookup(key)
    \/ \E key \in TestKeys : Store_Cleanup(key)
    \/ \E key \in TestKeys : Store_LastLog(key)

SpecSEC == InitSEC /\ [][NextSEC]_vars

\* scheduling: a goroutine that can take its next step takes it (the Go
\* scheduler runs every runnable goroutine; user code and Storage calls return;
\* a goroutine blocked in s.mu.Lock() or n.Wait() runs on once it can).  The
\* caller is not obliged to make another call on the saga.
Fairness ==
    /\ \A t \in Threads : WF_vars(Step(t))
    /\ WF_vars(ExecSubConcurrent_Wait)
    /\ WF_vars(EndSaga_SagaEnd(Main))
    /\ WF_vars(EndSaga_Finish(Main))

\* the saga within its lifecycle, under that scheduling
SpecLive == Init /\ [][Next]_vars /\ Fairness

\* ======================================================== properties
\* the saga's log as stored (empty before StartSaga)
SagaLog == IF logID = "" THEN <<>> ELSE store[logID]

Range(seq) == {seq[k] : k \in DOMAIN seq}
HasType(seq, type) == \E k \in DOMAIN seq : seq[k].Type = type

\* every call the caller made on the running saga has returned
AllReturned == pc[Main] = "idle" /\ phase = "running"

\* the scans (Aborts) that compensated, or began to compensate, snapshot record k
ScansOf(k) == {n \in DOMAIN scans : k \in Range(scans[n].comp)}
\* the scans that finished the compensation of snapshot record k
ScansDone(k) == {n \in DOMAIN scans : k \in scans[n].fin}
\* the positions of the ActionEnd records the Aborts found in their snapshots
SnapshotActionEnds ==
    {k \in 1..Len(SagaLog) :
        \E n \in DOMAIN scans : k \in DOMAIN scans[n].snap /\ scans[n].snap[k].Type = "ActionEnd"}

\* C1: when the saga was aborted, no compensation exhausted its retries and every
\* ExecSub, ExecSubConcurrent and Abort call has returned, every ActionEnd record
\* of the log is followed by a CompensateEnd record for the same subTxID.
C1_EveryCommitCompensated ==
    (AllReturned /\ abort /\ ~compensateFail) =>
        \A k \in DOMAIN SagaLog :
            SagaLog[k].Type = "ActionEnd" =>
                \E j \in DOMAIN SagaLog :
                    /\ j > k
                    /\ SagaLog[j].Type = "CompensateEnd"
                    /\ SagaLog[j].SubTxID = SagaLog[k].SubTxID

\* C2 (P3): in an aborted saga with compensateFail not latched, once every call
\* has returned, each ActionEnd record of an abort snapshot has exactly one
\* CompensateStart/CompensateEnd pair, however often Abort was entered.
C2_CompensatedExactlyOnce ==
    (AllReturned /\ abort /\ ~compensateFail) =>
        \A k \in SnapshotActionEnds :
            Cardinality(ScansOf(k)) = 1 /\ Cardinality(ScansDone(k)) = 1

\* an ActionStart record is appended in this step
AppendsActionStart ==
    /\ Len(SagaLog') = Len(SagaLog) + 1
    /\ SagaLog'[Len(SagaLog')].Type = "ActionStart"

\* C3 (P5): once Abort was entered (abort set and SagaAbort appended), no
\* ActionStart record is appended to the saga's log.
C3_NoActionStartAfterAbort ==
    [][(abort /\ HasType(SagaLog, "SagaAbort")) => ~AppendsActionStart]_vars

\* the positions of the ActionEnd records of a snapshot, the last one first
RECURSIVE ActionEndsFromEnd(_, _)
ActionEndsFromEnd(snapshot, k) ==
    IF k = 0 THEN <<>>
    ELSE IF snapshot[k].Type = "ActionEnd"
         THEN <<k>> \o ActionEndsFromEnd(snapshot, k - 1)
         ELSE ActionEndsFromEnd(snapshot, k - 1)

\* C4 (P4): within one Abort the compensations are started in the reverse order
\* of the ActionEnd records of its snapshot, none skipped, and each one has
\* finished (its CompensateEnd is appended) before the next one is started.
C4_ReverseOrder ==
    \A n \in DOMAIN scans :
        LET expected == ActionEndsFromEnd(scans[n].snap, Len(scans[n].snap))
            comp == scans[n].comp
        IN /\ Len(comp) <= Len(expected)
           /\ \A j \in DOMAIN comp : comp[j] = expected[j]
           /\ \A j \in DOMAIN comp : j < Len(comp) => comp[j] \in scans[n].fin
           /\ scans[n].fin \subseteq Range(comp)

\* an Abort has started the compensation of a second ActionEnd of its snapshot
C4_Witness ==
    \E n \in DOMAIN scans :
        /\ Len(scans[n].comp) >= 2
        /\ scans[n].comp[1] > scans[n].comp[2]
        /\ HasType(SagaLog, "CompensateEnd")

\* C5 (P7): after EndSaga returned, the log under logID is empty iff
\* compensateFail is false; with compensateFail the whole log, SagaStart to
\* SagaEnd, is kept and logID is in the failures index.
C5_CleanupIffClean ==
    phase = "ended" =>
        /\ (SagaLog = <<>>) <=> ~compensateFail
        /\ compensateFail =>
              /\ SagaLog[1].Type = "SagaStart"
              /\ SagaLog[Len(SagaLog)].Type = "SagaEnd"
              /\ HasType(SagaLog, "SagaAbort")
              /\ logID \in Range(Lookup(store, FailKey))

\* EndSaga returned on a saga whose compensation failed
C5_Witness == phase = "ended" /\ compensateFail /\ Len(SagaLog) >= 5

\* goroutine t is no longer in scan n, or is on its way out after the failure
ScanHalted(n) == \A t \in Threads : scanOf[t] = n => pc[t] \in {"A360", "A361"}
ScanReturned(n) == \A t \in Threads : scanOf[t] # n

\* C6 (P8): once a compensation of a scan exhausted its retries, the scan starts
\* no further compensation (the failed one stays its last, without CompensateEnd)
\* and, by the time Abort returns, compensateFail is latched and logID is in the
\* failures index.
C6_FailureHaltsScan ==
    \A n \in DOMAIN scans :
        scans[n].failedAt # 0 =>
            /\ scans[n].comp # <<>>
            /\ scans[n].comp[Len(scans[n].comp)] = scans[n].failedAt
            /\ scans[n].failedAt \notin scans[n].fin
            /\ ScanHalted(n)
            /\ ScanReturned(n) =>
                  compensateFail /\ logID \in Range(Lookup(store, FailKey))

\* a scan failed and returned while an ActionEnd lower in its snapshot was left
C6_Witness ==
    \E n \in DOMAIN scans :
        /\ scans[n].failedAt # 0
        /\ ScanReturned(n)
        /\ \E k \in 1..(scans[n].failedAt - 1) : scans[n].snap[k].Type = "ActionEnd"

\* C7: saga.err keeps the error written first, later failures do not overwrite
\* it, and EndSaga returns that first error.
C7_FirstErrorWins ==
    /\ errLog # <<>> => err = errLog[1]
    /\ (phase = "ended" /\ errLog # <<>>) => ret = errLog[1]

\* C8: EndSaga returns nil only for a saga that was not aborted, the action error
\* when the saga was aborted, and never nil when compensateFail is latched.
C8_ReturnTellsOutcome ==
    phase = "ended" =>
        /\ ret = nil => ~abort
        /\ compensateFail => ret # nil
        /\ (ret # nil) => ret \in Range(errLog)

\* C8 amended: EndSaga returns s.err, which is nil exactly when no action
\* returned an error (also after a caller's Abort, compensateFail latched or
\* not) and otherwise an error an action returned, compensateFail or not.
C8_ReturnsSagaErr ==
    phase = "ended" =>
        /\ ret = err
        /\ (ret = nil) <=> (errLog = <<>>)
        /\ (ret # nil) => ret \in Range(errLog)

\* EndSaga returned an action's error on a saga whose compensation failed
C8_Witness == phase = "ended" /\ compensateFail /\ ret \in Errors

\* at most one SagaEnd record, and that one the last record of the log
SagaEndLast ==
    \A k \in DOMAIN SagaLog : SagaLog[k].Type = "SagaEnd" => k = Len(SagaLog)

\* C9 (I1/P2): in every reachable state, also after calls made when EndSaga has
\* returned, the log holds at most one SagaEnd and it is the last record.
C9_SagaEndLastAlways == SagaEndLast

\* C9 amended: the same, as long as no call is made on the saga after EndSaga
\* returned.
C9_SagaEndLastInLifecycle == phase # "late" => SagaEndLast

\* EndSaga returned and the log, kept by compensateFail, ends with SagaEnd
C9_Witness ==
    /\ phase = "ended"
    /\ SagaLog # <<>>
    /\ SagaLog[Len(SagaLog)].Type = "SagaEnd"

CountOf(log, type, subTxID) ==
    Cardinality({k \in DOMAIN log : log[k].Type = type /\ log[k].SubTxID = subTxID})
\* the ExecSub calls for subTxID whose action is running or has just returned
InAction(subTxID) ==
    {t \in Threads : cur[t].SubTxID = subTxID /\ pc[t] \in {"E272", "E274", "E275", "E287"}}
\* the number of times an error was written to Saga.err by a call for subTxID
FailedCalls(subTxID) ==
    Cardinality({k \in DOMAIN errLog : errLog[k] = ActionErr(subTxID)})
\* a log as the list of its records' types and sub-transaction ids
Brief(log) == [k \in DOMAIN log |-> <<log[k].Type, log[k].SubTxID>>]

\* the sequential saga out(ok), in(fail), EndSaga, just before EndSaga's cleanup:
\* three calls without ExecSubConcurrent, two of them ExecSub, of which the one
\* with out's arguments appended ActionEnd and the one for in wrote Saga.err
OutOkInFails ==
    /\ ~concurrent /\ calls = 3 /\ subs = 2
    /\ pc[Main] = "N324" /\ phase = "running"
    /\ {sent[k] : k \in DOMAIN sent} = {<<"A", 50>>}
    /\ errLog = <<ActionErr("in")>>
    /\ ~compensateFail

\* C11: a failed action is not compensated: every record an abort scan
\* compensates is an ActionEnd; each ExecSub whose action failed left an
\* ActionStart without ActionEnd; and the sequential saga out(ok), in(fail) has,
\* before cleanup, exactly the log SagaStart, ActionStart(out), ActionEnd(out),
\* ActionStart(in), SagaAbort, CompensateStart(out), CompensateEnd(out), SagaEnd.
C11_FailedActionNotCompensated ==
    /\ \A n \in DOMAIN scans : \A j \in DOMAIN scans[n].comp :
            scans[n].snap[scans[n].comp[j]].Type = "ActionEnd"
    /\ phase = "running" =>
          \A x \in SubTxIDs :
              CountOf(SagaLog, "ActionStart", x) =
                  CountOf(SagaLog, "ActionEnd", x) + Cardinality(InAction(x))
                      + FailedCalls(x)
    /\ OutOkInFails =>
          Brief(SagaLog) = << <<"SagaStart", "">>, <<"ActionStart", "out">>,
                              <<"ActionEnd", "out">>, <<"ActionStart", "in">>,
                              <<"SagaAbort", "">>, <<"CompensateStart", "out">>,
                              <<"CompensateEnd", "out">>, <<"SagaEnd", "">> >>

\* out committed, in failed and was aborted, and EndSaga is about to clean up
C11_Witness == OutOkInFails /\ Len(SagaLog) = 8

\* the position, in the snapshot, of the record goroutine t's compensate is for
Compensating(t) == ScanOrder(logs[t])[iter[t] + 1]
\* goroutine t's compensate has made the calls of its retry loop
AfterLoop(t) == pc[t] \in {"C408", "A360"}

\* C12: params are on the ActionEnd records only, and the calls of a
\* compensation receive exactly the argument sequence that was passed to the
\* ExecSub call which appended the ActionEnd record being compensated.
C12_ReplaysWithActionArgs ==
    /\ \A k \in DOMAIN SagaLog :
          /\ SagaLog[k].Type # "ActionEnd" => SagaLog[k].Params = <<>>
          /\ SagaLog[k].Type = "ActionEnd" =>
                k \in DOMAIN sent /\ Len(SagaLog[k].Params) = Len(sent[k])
    /\ \A t \in Threads :
          AfterLoop(t) =>
              /\ logs[t][Compensating(t)].Type = "ActionEnd"
              /\ loop[t].args = sent[Compensating(t)]

\* the compensation of "in" was called with the arguments of its ExecSub while
\* an ActionEnd of "out" is in the log as well
C12_Witness ==
    /\ \E t \in Threads : AfterLoop(t) /\ loop[t].args = <<"B", 50>>
    /\ CountOf(SagaLog, "ActionEnd", "out") > 0

\* C13: a saga started by a coordinator made with NewSEC(storage, logPrefix) has
\* logID = logPrefix || id, and its SagaStart record is stored under that key.
C13_LogIDHasCoordinatorPrefix ==
    logID # "" =>
        /\ logID = logPrefix \o sagaId
        /\ Lookup(store, logPrefix \o sagaId) = <<Log("SagaStart", "", <<>>)>>

\* a Storage call from outside was made in this step
Called(name) == op'.seq = op.seq + 1 /\ op'.name = name
\* what Lookup and LastLog return for the keys other than key is as before
OthersSame(key) ==
    \A k \in Keys \ {key} :
        /\ Lookup(store', k) = Lookup(store, k)
        /\ LastLog(store', k) = LastLog(store, k)

\* C16: Storage is an append-only sequence per key: AppendLog(key, data) makes
\* Lookup(key) the former list with data at its end and LastLog(key) data;
\* Cleanup(key) makes Lookup(key) empty and LastLog(key) the empty string; both
\* leave the other keys as they were; Lookup and LastLog change nothing, and
\* LastLog returns the last payload of what Lookup returns, "" if there is none.
C16_AppendOnlyPerKey ==
    [][/\ Called("AppendLog") =>
            /\ Lookup(store', op'.key) = Append(Lookup(store, op'.key), op'.data)
            /\ LastLog(store', op'.key) = op'.data
            /\ OthersSame(op'.key)
       /\ Called("Cleanup") =>
            /\ Lookup(store', op'.key) = <<>>
            /\ LastLog(store', op'.key) = ""
            /\ OthersSame(op'.key)
       /\ Called("Lookup") =>
            /\ op'.result = store[op'.key]
            /\ store' = store
       /\ Called("LastLog") =>
            /\ op'.result = IF store[op'.key] = <<>> THEN <<"">>
                             ELSE <<store[op'.key][Len(store[op'.key])]>>
            /\ store' = store
      ]_vars

\* as in TestRedisStorage2: after {1} and {2} were appended to a key and {1} to
\* the other one, LastLog returned {2}
C16_Witness ==
    /\ op.name = "LastLog" /\ op.result = <<"{2}">>
    /\ store[op.key] = <<"{1}", "{2}">>
    /\ \E k \in TestKeys \ {op.key} : store[k] = <<"{1}">>

\* C20: the key of the failures index differs from the logID of every saga a
\* caller may start, whatever id is given to StartSaga.
C20_FailuresIndexApart == logID # "" => logID # FailKey

\* every call of a user compensation was made with context.Background(), which
\* is not cancelled
CompensatesWithFreshContext ==
    \A t \in Threads :
        AfterLoop(t) => loop[t].ctx = Background /\ ~Cancelled(loop[t].ctx)

\* C14: cancelling the caller's context appends no record (no SagaAbort, no
\* CompensateStart) and moves no goroutine by itself, and every compensate call
\* made by Abort gets a fresh context that is not cancelled, never the saga's.
C14_CompensationIgnoresCancel ==
    [][/\ cancelled' # cancelled => (store' = store /\ pc' = pc /\ abort' = abort)
       /\ CompensatesWithFreshContext'
      ]_vars

\* an Abort that ran after the caller's context was cancelled compensated with
\* success
C14_Witness ==
    /\ cancelled
    /\ \E t \in Threads : pc[t] = "C408" /\ loop[t].ok
    /\ \E n \in DOMAIN scans : scans[n].fin # {}

\* goroutine w of ExecSubConcurrent is in one of its ExecSub calls
Running(w) == pc[w] \notin {"off", "done"}
\* the place, in its list, of the item goroutine w is at
ItemIndex(w) == Len(subTxsList[w]) - Len(queue[w])
\* the places an ExecSub call returns from
ReturnPoints == {"E251", "E287", "A353", "A361"}
\* how often a sub-transaction id is in the lists of the ExecSubConcurrent call
Occurrences(x) ==
    Cardinality({<<w, k>> \in Workers \X (1..MaxSubTx) :
                    k <= Len(subTxsList[w]) /\ subTxsList[w][k].SubTxID = x})
\* a running goroutine is in the ExecSub of one item of its list; the items
\* before it are done with and those behind it are not started
InListOrder ==
    \A w \in Workers :
        /\ Running(w) =>
              /\ ItemIndex(w) \in 1..Len(subTxsList[w])
              /\ cur[w] = subTxsList[w][ItemIndex(w)]
              /\ queue[w] = SubSeq(subTxsList[w], ItemIndex(w) + 1, Len(subTxsList[w]))
        /\ pc[w] = "done" => queue[w] = <<>>

RetryOutcome(t) ==
    /\ loop[t].n <= 10
    /\ loop[t].firstOk \in 1..10 =>
          /\ loop[t].ok /\ loop[t].n = loop[t].firstOk
          /\ pc[t] = "C408"
    /\ loop[t].firstOk \notin 1..10 =>
          /\ ~loop[t].ok /\ loop[t].n = 10
          /\ pc[t] = "A360"
          /\ scans[scanOf[t]].failedAt = Compensating(t)
          /\ Compensating(t) \notin scans[scanOf[t]].fin
          /\ CountOf(SagaLog, "CompensateStart", logs[t][Compensating(t)].SubTxID) > 0

\* C17: for one ActionEnd being compensated the user compensation is called at
\* most 10 times; if call k (1 <= k <= 10) is the first without error it is
\* called exactly k times and CompensateEnd is appended next; if all 10 calls
\* fail, the CompensateStart stays without CompensateEnd of this compensation,
\* compensate returns an error and the saga latches compensateFail.
C17_RetryBound ==
    [][\A t \in Threads :
          /\ AfterLoop(t)' => RetryOutcome(t)'
          /\ (pc[t] = "C408" /\ pc'[t] # "C408") =>
                SagaLog' = Append(SagaLog,
                                  Log("CompensateEnd", logs[t][Compensating(t)].SubTxID, <<>>))
          /\ (pc[t] = "A360" /\ pc'[t] # "A360") =>
                (compensateFail' /\ SagaLog' = SagaLog)
      ]_vars

\* a compensation succeeded at the tenth call, the last the loop makes
C17_Witness ==
    \E t \in Threads : pc[t] = "C408" /\ loop[t].firstOk = 10 /\ loop[t].n = 10

\* the places where ExecSub and Abort, which may run on several goroutines at
\* once, read or write abort, err or compensateFail (EndSaga, the caller's last
\* step, reads err and compensateFail at N324 without the mutex as well)
FieldAccess == {"E251", "E275", "A339", "A360"}
\* the places where a goroutine is in a Storage call or in user code
StorageOrUserCode ==
    {"E262", "E272", "E287", "A341", "A349", "A353", "C392", "C408", "A361", "N318"}

\* C18: every read and write of abort, err and compensateFail in ExecSub and
\* Abort is made by the goroutine holding the saga mutex, and the mutex is not
\* held during a Storage call or a user action or compensation.
C18_FieldsUnderMutex ==
    \A t \in Threads :
        /\ pc[t] \in FieldAccess => mu = t
        /\ pc[t] \in StorageOrUserCode => mu # t

\* C19 (I2): every CompensateStart record for a subTxID is preceded in the log
\* by an ActionEnd record for the same subTxID and by a SagaAbort record.
C19_CompensateStartPreceded ==
    \A k \in DOMAIN SagaLog :
        SagaLog[k].Type = "CompensateStart" =>
            /\ \E j \in 1..(k - 1) :
                  SagaLog[j].Type = "ActionEnd" /\ SagaLog[j].SubTxID = SagaLog[k].SubTxID
            /\ \E j \in 1..(k - 1) : SagaLog[j].Type = "SagaAbort"

\* two sub-transactions committed and the compensation of both has started
C19_Witness ==
    /\ CountOf(SagaLog, "CompensateStart", "in") > 0
    /\ CountOf(SagaLog, "CompensateStart", "out") > 0

\* the positions of a goroutine inside ExecSub, and inside Abort and compensate
ExecSubPoints == {"E250", "E251", "E262", "E272", "E274", "E275", "E287"}
AbortPoints == {"A338", "A339", "A341", "A349", "A353", "C392", "C408", "A360", "A361"}
\* goroutine t is in no call of ExecSub or Abort that it has not returned from
Returned(t) == pc[t] \notin ExecSubPoints \cup AbortPoints
\* the sub-transactions of its list a goroutine has not returned from
ItemsLeft(w) == IF Returned(w) THEN 0 ELSE Len(queue[w]) + 1
\* each Abort so far called compensate at most once for an ActionEnd record of
\* its snapshot, and for no other record
OncePerActionEnd ==
    \A n \in DOMAIN scans :
        /\ \A j, k \in DOMAIN scans[n].comp : scans[n].comp[j] = scans[n].comp[k] => j = k
        /\ \A j \in DOMAIN scans[n].comp :
              /\ scans[n].comp[j] \in DOMAIN scans[n].snap
              /\ scans[n].snap[scans[n].comp[j]].Type = "ActionEnd"

\* SagaEnd is in the log, as its last record
EndsWithSagaEnd == Len(SagaLog) > 0 /\ SagaLog[Len(SagaLog)].Type = "SagaEnd"

\* C21 (termination): when every goroutine that can run does run, and user code
\* and Storage calls return, then every call returns: a retry loop ends after 1
\* to 10 invocations of the compensation; an Abort returns, having called
\* compensate at most once for each ActionEnd of its snapshot; every ExecSub of a
\* goroutine's list and of the caller returns; ExecSubConcurrent returns; and
\* EndSaga, once called, appends SagaEnd as the last record and returns, which
\* ends the saga.
C21_EveryCallReturns ==
    /\ \A t \in Threads :
          (pc[t] = "C392") ~> (pc[t] \in {"C408", "A360"} /\ loop[t].n \in 1..maxTry)
    /\ \A t \in Threads :
          (pc[t] \in AbortPoints) ~> (pc[t] \notin AbortPoints /\ OncePerActionEnd)
    /\ \A w \in Workers : \A n \in 1..(MaxSubTx + 1) :
          (ItemsLeft(w) = n) ~> (ItemsLeft(w) < n)
    /\ (pc[Main] \in ExecSubPoints \cup AbortPoints \cup {"wait"}) ~> (pc[Main] = "idle")
    /\ (pc[Main] = "N318") ~> (pc[Main] = "N324" /\ EndsWithSagaEnd)
    /\ (pc[Main] = "N324") ~> (phase = "ended" /\ pc[Main] = "idle" /\ ret # "none")

\* a saga has ended whose goroutines ran concurrently and whose Abort gave up a
\* compensation after its last retry: every goroutine has returned and SagaEnd
\* is the last record of the log EndSaga kept
C21_Witness ==
    /\ phase = "ended"
    /\ concurrent
    /\ compensateFail
    /\ \A n \in DOMAIN scans : scans[n].failedAt # 0
    /\ \A t \in Threads : pc[t] \in {"idle", "off"}
    /\ EndsWithSagaEnd

====
